---- MODULE Spec2Model ----
(***************************************************************************)
(* A model of scripts/dev/generate_config_types.py: the key tree builder   *)
(* (make_nested_config), the type expression resolver (get_type_hint and   *)
(* _get_type_hint) and the record emitter (generate_class inside           *)
(* generate_config_types).                                                 *)
(*                                                                         *)
(* Text is modelled as a sequence of pieces (characters where the code     *)
(* splits or replaces, tokens where it only interpolates); Str flattens a  *)
(* sequence of pieces into the string the code builds.                     *)
(***************************************************************************)
EXTENDS Naturals, Sequences, FiniteSets, TLC

\* ------------------------------------------------------------------ bounds

\* Largest number of dotted keys in an input mapping.
MaxKeys == 3
\* Deepest nesting of composite type descriptors (List, Dict, ListOrValue).
MaxDepth == 1
\* Number of times the generator is run on the same schema snapshot.
MaxRuns == 2

\* ------------------------------------------------------- text primitives

RECURSIVE Str(_)
\* The string made of the pieces of s, in order.
Str(s) == IF s = <<>> THEN "" ELSE Head(s) \o Str(Tail(s))

RECURSIVE Concat(_)
\* The concatenation of a sequence of sequences.
Concat(ss) == IF ss = <<>> THEN <<>> ELSE Head(ss) \o Concat(Tail(ss))

RECURSIVE split(_, _)
\* str.split(sep) for a one-character separator: always at least one part.
split(s, sep) ==
    IF \A k \in 1..Len(s) : s[k] # sep
    THEN <<s>>
    ELSE LET k == CHOOSE k \in 1..Len(s) :
                      s[k] = sep /\ \A j \in 1..(k - 1) : s[j] # sep
         IN <<SubSeq(s, 1, k - 1)>> \o split(SubSeq(s, k + 1, Len(s)), sep)

RECURSIVE join(_, _)
\* sep.join(parts)
join(sep, parts) ==
    IF parts = <<>> THEN <<>>
    ELSE IF Len(parts) = 1 THEN parts[1]
    ELSE parts[1] \o sep \o join(sep, Tail(parts))

RECURSIVE replace(_, _, _)
\* str.replace(old, new): every non-overlapping occurrence, left to right.
replace(s, old, new) ==
    IF Len(s) < Len(old) THEN s
    ELSE IF SubSeq(s, 1, Len(old)) = old
         THEN new \o replace(SubSeq(s, Len(old) + 1, Len(s)), old, new)
         ELSE <<Head(s)>> \o replace(Tail(s), old, new)

endswith(s, c) == s # <<>> /\ s[Len(s)] = c

LowerCase == <<"a", "b", "c", "d", "e", "f", "g", "h", "i", "j", "k", "l", "m",
               "n", "o", "p", "q", "r", "s", "t", "u", "v", "w", "x", "y", "z">>
UpperCase == <<"A", "B", "C", "D", "E", "F", "G", "H", "I", "J", "K", "L", "M",
               "N", "O", "P", "Q", "R", "S", "T", "U", "V", "W", "X", "Y", "Z">>

upper(c) == IF \E k \in 1..Len(LowerCase) : LowerCase[k] = c
            THEN UpperCase[CHOOSE k \in 1..Len(LowerCase) : LowerCase[k] = c]
            ELSE c
lower(c) == IF \E k \in 1..Len(UpperCase) : UpperCase[k] = c
            THEN LowerCase[CHOOSE k \in 1..Len(UpperCase) : UpperCase[k] = c]
            ELSE c

\* str.capitalize(): first character upper-cased, the rest lower-cased.
capitalize(word) ==
    [k \in 1..Len(word) |-> IF k = 1 THEN upper(word[k]) ELSE lower(word[k])]

snake_to_camel(name) ==
    LET words == split(name, "_")
    IN Concat([k \in 1..Len(words) |-> capitalize(words[k])])

\* The two-character text \+ and its replacement \\+.
triple_quote(v) ==
    <<"\"\"\"">> \o replace(v, <<"\\", "+">>, <<"\\", "\\", "+">>) \o <<"\"\"\"">>

\* ------------------------------------------------------ type descriptors

\* The descriptor classes the resolver tests with isinstance, by name.  The
\* class hierarchy itself lives in qutebrowser.config.configtypes; here a
\* descriptor is an instance of exactly the class it names.
\* Mutant of StringLike: Proxy left out of the isinstance tuple.
StringLike_without_Proxy ==
    {"String", "FontBase", "QtColor", "QssColor", "Command", "Key",
     "SessionName", "Url", "File", "UrlPattern", "FormatString", "Directory",
     "Encoding", "FuzzyUrl", "SearchEngineUrl"}

StringLike == {"String", "FontBase", "QtColor", "QssColor", "Command", "Key",
               "SessionName", "Url", "File", "UrlPattern", "FormatString",
               "Directory", "Encoding", "FuzzyUrl", "SearchEngineUrl", "Proxy"}
\* The classes some branch of _get_type_hint names.
HandledClasses ==
    {"List", "Dict", "Bool", "MappingType", "Int", "Float", "ListOrValue",
     "Perc", "PercOrInt", "Regex"} \cup StringLike
\* A descriptor class no branch names.
OtherClass == "OtherType"

isinstance(typ, cls) == typ.cls = cls

\* get_valid_values() returns None or a ValidValues object.
NoValues == [isNone |-> TRUE, values |-> <<>>]
ValidValues(vs) == [isNone |-> FALSE, values |-> vs]

Leaf(cls, none_ok, vv) ==
    [cls |-> cls, none_ok |-> none_ok, valid_values |-> vv,
     MAPPING |-> IF cls = "MappingType" THEN <<"rgb", "hsv">> ELSE <<>>]
List(valtype, none_ok) ==
    [cls |-> "List", none_ok |-> none_ok, valtype |-> valtype]
Dict(keytype, valtype, none_ok) ==
    [cls |-> "Dict", none_ok |-> none_ok, keytype |-> keytype,
     valtype |-> valtype]
ListOrValue(valtype, listtype, none_ok, vv) ==
    [cls |-> "ListOrValue", none_ok |-> none_ok, valid_values |-> vv,
     MAPPING |-> <<>>, valtype |-> valtype, listtype |-> listtype]

\* ------------------------------------------------- type expression resolver

\* A resolution either returns the pieces of a type expression or raises.
Returned(toks) == [ok |-> TRUE, toks |-> toks]
Raised == [ok |-> FALSE, toks |-> <<>>]

\* repr() of a plain string value.
repr(k) == "'" \o k \o "'"

\* f'Literal[{", ".join(repr(k) for k in values)}]'
LiteralOf(values) ==
    <<"Literal[">> \o join(<<", ">>, [k \in 1..Len(values) |-> <<repr(values[k])>>])
                   \o <<"]">>

\* Mutant of assert_never: a type-check-only marker that falls through.
assert_never_returns == Returned(<<"None">>)

\* typing_extensions.assert_never always raises at run time.
assert_never == Raised

\* Mutant of get_type_hint: the Optional wrapper is dropped for a List.
RECURSIVE get_type_hint_unwrapped_list(_)

RECURSIVE _get_type_hint(_)
RECURSIVE get_type_hint(_)

_get_type_hint(typ) ==
    IF isinstance(typ, "List") THEN
        LET v == get_type_hint(typ.valtype)
        IN IF ~v.ok THEN Raised
           ELSE Returned(<<"list[">> \o v.toks \o <<"]">>)
    ELSE IF isinstance(typ, "Dict") THEN
        LET k == get_type_hint(typ.keytype)
            v == get_type_hint(typ.valtype)
        IN IF ~k.ok \/ ~v.ok THEN Raised
           ELSE Returned(<<"Mapping[">> \o k.toks \o <<", ">> \o v.toks \o <<"]">>)
    ELSE IF isinstance(typ, "Bool") THEN Returned(<<"bool">>)
    ELSE IF ~typ.valid_values.isNone
        THEN Returned(LiteralOf(typ.valid_values.values))
    ELSE IF isinstance(typ, "MappingType") THEN Returned(LiteralOf(typ.MAPPING))
    ELSE IF \E c \in StringLike : isinstance(typ, c) THEN Returned(<<"str">>)
    ELSE IF isinstance(typ, "Int") THEN Returned(<<"int">>)
    ELSE IF isinstance(typ, "Float") THEN Returned(<<"float">>)
    ELSE IF isinstance(typ, "ListOrValue") THEN
        LET v == get_type_hint(typ.valtype)
            l == get_type_hint(typ.listtype)
        IN IF ~v.ok \/ ~l.ok THEN Raised
           ELSE Returned(<<"Union[">> \o v.toks \o <<", ">> \o l.toks \o <<"]">>)
    ELSE IF isinstance(typ, "Perc") THEN Returned(<<"Union[float, int, str]">>)
    ELSE IF isinstance(typ, "PercOrInt") THEN Returned(<<"Union[int, str]">>)
    ELSE IF isinstance(typ, "Regex") THEN Returned(<<"Union[str, re.Pattern[str]]">>)
    ELSE assert_never

get_type_hint_unwrapped_list(typ) ==
    LET inner == _get_type_hint(typ)
    IN IF ~inner.ok THEN Raised
       ELSE IF typ.none_ok /\ ~isinstance(typ, "List")
            THEN Returned(<<"Optional[">> \o inner.toks \o <<"]">>)
       ELSE inner

get_type_hint(typ) ==
    LET inner == _get_type_hint(typ)
    IN IF ~inner.ok THEN Raised
       ELSE IF typ.none_ok THEN Returned(<<"Optional[">> \o inner.toks \o <<"]">>)
       ELSE inner

\* The tests of the branches of _get_type_hint that hold for typ, each taken
\* on its own (a descriptor that has get_valid_values and MAPPING).
BranchesApplying(t) ==
    {b \in {"List", "Dict", "Bool", "valid_values", "MappingType",
            "StringLike", "Int", "Float", "ListOrValue", "Perc", "PercOrInt",
            "Regex"} :
        IF b = "valid_values" THEN ~t.valid_values.isNone
        ELSE IF b = "StringLike" THEN \E c \in StringLike : isinstance(t, c)
        ELSE isinstance(t, b)}

\* ------------------------------------------------------- key tree builder

\* An Option of configdata: its type descriptor, its default ("None" when
\* absent) and its description (characters).
Option(typ, default, description) ==
    [typ |-> typ, default |-> default, description |-> description]

\* A NestedConfig value: a dict (ordered items) or an Option.
EmptyDict == [isdict |-> TRUE, items |-> <<>>]
DictOf(items) == [isdict |-> TRUE, items |-> items]
LeafOf(option) == [isdict |-> FALSE, option |-> option]
Item(key, value) == [key |-> key, value |-> value]

HasKey(d, key) == \E k \in 1..Len(d.items) : d.items[k].key = key
IndexOf(d, key) == CHOOSE k \in 1..Len(d.items) : d.items[k].key = key

\* Mutant of setitem: an existing key is deleted and inserted again, last.
setitem_moving(d, key, value) ==
    LET Other(item) == item.key # key
    IN [isdict |-> TRUE,
        items |-> Append(SelectSeq(d.items, Other), [key |-> key, value |-> value])]

\* d[key] = value: an existing key keeps its position, a new one goes last.
setitem(d, key, value) ==
    IF HasKey(d, key)
    THEN DictOf([d.items EXCEPT ![IndexOf(d, key)] = Item(key, value)])
    ELSE DictOf(Append(d.items, Item(key, value)))

\* Mutant of setdefault: current[part] = {} in place of setdefault.
setdefault_fresh(d, key) == EmptyDict

\* The value d.setdefault(key, {}) returns.
setdefault(d, key) ==
    IF HasKey(d, key) THEN d.items[IndexOf(d, key)].value ELSE EmptyDict

Built(node) == [ok |-> TRUE, node |-> node]
NoTree == [ok |-> FALSE, node |-> EmptyDict]

RECURSIVE insert(_, _, _)
\* One pass of the loop body of make_nested_config below 'current': descend
\* through parts[:-1] with setdefault, then assign parts[-1].  An Option has
\* neither setdefault nor item assignment, so reaching one raises.
insert(current, parts, value) ==
    IF ~current.isdict THEN NoTree
    ELSE IF Len(parts) = 1 THEN Built(setitem(current, parts[1], LeafOf(value)))
    ELSE LET sub == insert(setdefault(current, parts[1]), Tail(parts), value)
         IN IF ~sub.ok THEN NoTree
            ELSE Built(setitem(current, parts[1], sub.node))

\* --------------------------------------------------------- record emitter

\* One element of class_def: the arguments of the f-string that builds it.
Line(kind, indent, name, hint, text) ==
    [kind |-> kind, indent |-> indent, name |-> name, hint |-> hint,
     text |-> text]

\* The string an element of class_def is.
Render(l) ==
    CASE l.kind = "decorator" -> l.indent \o "@dataclass"
      [] l.kind = "class" -> l.indent \o "class " \o Str(l.name) \o ":"
      [] l.kind = "doc" -> l.indent \o Str(l.text)
      [] l.kind = "field" -> l.indent \o Str(l.name) \o ": " \o Str(l.hint)

Emitted(lines) == [ok |-> TRUE, lines |-> lines]
EmitFailed == [ok |-> FALSE, lines |-> <<>>]

\* The documentation element of a leaf field (lines 170-181).
FieldDoc(indent, text) ==
    LET lines == split(text, "\n")
        joined == join(<<"\n", "\n">>,
                       [k \in 1..Len(lines) |->
                           IF k = 1 THEN lines[k]
                           ELSE <<indent, "    ">> \o lines[k]])
        description == IF ~endswith(joined, "\n") /\ Len(lines) > 1
                       THEN joined \o <<"\n", indent, "    ">>
                       ELSE joined
    IN Line("doc", indent \o "    ", <<>>, <<>>,
            triple_quote(description) \o <<"\n">>)

\* Mutant of field_type: optional by the descriptor's flag, not the default.
field_type_by_flag(value) ==
    LET type_hint == get_type_hint(value.typ)
    IN IF ~type_hint.ok THEN Raised
       ELSE IF value.typ.none_ok
            THEN Returned(<<"Optional[">> \o type_hint.toks \o <<"]">>)
            ELSE type_hint

\* The type a leaf field is emitted with (lines 164-168).
field_type(value) ==
    LET type_hint == get_type_hint(value.typ)
    IN IF ~type_hint.ok THEN Raised
       ELSE IF value.default = "None"
            THEN Returned(<<"Optional[">> \o type_hint.toks \o <<"]">>)
            ELSE type_hint

\* The name of the record emitted for the sub-tree under key (line 183).
nested_name(key) == <<"_">> \o snake_to_camel(key)

RECURSIVE generate_class(_, _, _, _)
RECURSIVE generate_fields(_, _)

\* The loop over config.items() of generate_class.
generate_fields(items, indent) ==
    IF items = <<>> THEN Emitted(<<>>)
    ELSE
      LET key == Head(items).key
          value == Head(items).value
          here ==
            IF ~value.isdict THEN
              LET type_hint == field_type(value.option)
              IN IF ~type_hint.ok THEN EmitFailed
                 ELSE Emitted(
                   <<Line("field", indent \o "    ", key, type_hint.toks, <<>>)>>
                   \o (IF value.option.description # <<>>
                       THEN <<FieldDoc(indent, value.option.description)>>
                       ELSE <<>>))
            ELSE
              LET nested_class_name == nested_name(key)
                  nested == generate_class(nested_class_name, value,
                                           indent \o "    ", <<>>)
              IN IF ~nested.ok THEN EmitFailed
                 ELSE Emitted(<<Line("field", indent \o "    ", key,
                                     nested_class_name, <<>>)>>
                              \o nested.lines)
          rest == generate_fields(Tail(items), indent)
      IN IF ~here.ok \/ ~rest.ok THEN EmitFailed
         ELSE Emitted(here.lines \o rest.lines)

\* description is <<>> for None, <<text>> otherwise.
generate_class(class_name, config, indent, description) ==
    LET class_def ==
            <<Line("decorator", indent, <<>>, <<>>, <<>>),
              Line("class", indent, class_name, <<>>, <<>>)>>
            \o (IF description # <<>>
                THEN <<Line("doc", indent \o "    ", <<>>, <<>>,
                            triple_quote(description[1]))>>
                ELSE <<>>)
        fields == generate_fields(config.items, indent)
    IN IF ~fields.ok THEN EmitFailed
       ELSE Emitted(class_def \o fields.lines)

\* The lines generate_config_types starts its output with (lines 113-146).
\* A TLA+ string cannot hold a backquote: each one of the source's text is
\* written ' here and in RootDescription.
Header ==
    <<"\"\"\"This file defines static types for the 'c' variable in 'config.py'.\n\nThis is auto-generated from the 'scripts/dev/generate_config_types.py' file.\n\nIt is not intended to be used at runtime.\n\nExample usage:\n'''py\nfrom typing import TYPE_CHECKING, cast\n\nif TYPE_CHECKING:\n    from qutebrowser.config.configfiles import ConfigAPI\n    from qutebrowser.config.configcontainer import ConfigContainer\n\n    # note: these expressions aren't executed at runtime\n    c = cast(ConfigContainer, ...)\n    config = cast(ConfigAPI, ...)\n'''\n\"\"\"",
      "",
      "# pylint: disable=line-too-long, invalid-name",
      "",
      "from __future__ import annotations",
      "import re",
      "from dataclasses import dataclass",
      "from collections.abc import Mapping",
      "from typing import Optional, Union, Literal",
      "",
      "">>

RootName == <<"ConfigContainer">>
RootDescription == <<"Type for the 'c' variable in 'config.py'.">>

\* "\n".join(output)
OutputText(lines) ==
    Str(join(<<"\n">>, [k \in 1..Len(Header) + Len(lines) |->
                           IF k <= Len(Header) THEN <<Header[k]>>
                           ELSE <<Render(lines[k - Len(Header)])>>]))

Text(text) == [ok |-> TRUE, text |-> text]
NoOutput == [ok |-> FALSE, text |-> ""]

\* ------------------------------------------------------------------ inputs

\* Type descriptors nested to depth d.  Dict keys and the list side of a
\* ListOrValue are drawn from small sets to keep the set finite and small.
ValueChoices == {NoValues, ValidValues(<<"x", "y">>)}
LeafClasses ==
    {"Bool", "MappingType", "Int", "Float", "Perc", "PercOrInt", "Regex",
     "String", "FontBase", "QtColor", "QssColor", "Command", "Key",
     "SessionName", "Url", "File", "UrlPattern", "FormatString", "Directory",
     "Encoding", "FuzzyUrl", "SearchEngineUrl", "Proxy"}
Leaves ==
    {Leaf(cls, none_ok, vv) : cls \in LeafClasses \cup {OtherClass},
                              none_ok \in BOOLEAN, vv \in ValueChoices}
KeyTypes == {Leaf("String", FALSE, NoValues), Leaf(OtherClass, FALSE, NoValues)}
ListTypes == {List(Leaf("Int", TRUE, NoValues), FALSE)}

RECURSIVE TypesAt(_)
TypesAt(d) ==
    IF d = 0 THEN Leaves
    ELSE LET sub == TypesAt(d - 1)
         IN Leaves
            \cup {List(v, n) : v \in sub, n \in BOOLEAN}
            \cup {Dict(k, v, n) : k \in KeyTypes, v \in sub, n \in BOOLEAN}
            \cup {ListOrValue(v, l, n, NoValues) :
                      v \in sub, l \in ListTypes, n \in BOOLEAN}
            \cup {ListOrValue(v, l, FALSE, ValidValues(<<"x", "y">>)) :
                      v \in Leaves, l \in ListTypes}

Types == TypesAt(MaxDepth)

\* The dotted keys input mappings are made of.
Keys ==
    { <<"b", ".", "x">>, <<"a", ".", "y">>, <<"b", ".", "z">>, <<"b">>,
      <<"b", ".", "x", ".", "r">>, <<"a", "_", "b", ".", "x">>,
      <<"a", "_", "_", "b", ".", "y">> }

\* The options input mappings are made of.
Options ==
    << Option(Leaf("Bool", FALSE, NoValues), "True", <<"S", "a", "v", "e", ".">>),
       Option(Leaf("String", FALSE, NoValues), "None", <<>>),
       Option(List(Leaf("Int", FALSE, NoValues), TRUE), "[]", <<"a", "\n", "b">>),
       Option(Leaf("String", TRUE, NoValues), "None", <<"\\", "+">>),
       Option(Leaf(OtherClass, FALSE, NoValues), "None", <<>>) >>

KeyLists ==
    {ks \in UNION {[1..n -> Keys] : n \in 0..MaxKeys} :
        \A j, k \in 1..Len(ks) : j # k => ks[j] # ks[k]}

\* An input mapping: distinct keys in some order, the options dealt to them
\* in turn from Options starting at any of them.
Configs ==
    {[k \in 1..Len(ks) |-> Item(ks[k], Options[((k + r) % Len(Options)) + 1])] :
        ks \in KeyLists, r \in 0..(Len(Options) - 1)}

\* ------------------------------------------------------------------- state

VARIABLES
    config,         \* the input mapping (configdata.DATA), in its order
    snapshot,       \* the input mapping as the schema loader produced it
    pc,             \* where generate_config_types is
    i,              \* index of the next item of config.items()
    result,         \* make_nested_config's result, under construction
    nested_config,  \* what make_nested_config returned
    class_def,      \* what the outermost generate_class returned
    output,         \* what generate_config_types returned
    run,            \* number of the current run
    outputs,        \* the outcome of every finished run
    typ,            \* resolver runs: the descriptor given
    resolved,       \* resolver runs: which functions have been called
    inner,          \* resolver runs: what _get_type_hint(typ) gave
    hint            \* resolver runs: what get_type_hint(typ) gave

vars == <<config, snapshot, pc, i, result, nested_config, class_def, output,
          run, outputs, typ, resolved, inner, hint>>

genvars == <<config, snapshot, pc, i, result, nested_config, class_def,
             output, run, outputs>>
hintvars == <<typ, resolved, inner, hint>>

\* --------------------------------------------- generate_config_types runs

Init ==
    /\ config \in Configs
    /\ snapshot = config
    /\ pc = "idle"
    /\ i = 1
    /\ result = EmptyDict
    /\ nested_config = NoTree
    /\ class_def = <<>>
    /\ output = NoOutput
    /\ run = 1
    /\ outputs = <<>>
    /\ typ = Leaf("Bool", FALSE, NoValues)
    /\ resolved = {}
    /\ inner = Raised
    /\ hint = Raised

\* Mutant of Start: result is kept from the run before (a module-level dict).
Start_keeping_result ==
    /\ pc = "idle"
    /\ pc' = "build"
    /\ result' = result
    /\ i' = 1
    /\ nested_config' = NoTree
    /\ class_def' = <<>>
    /\ output' = NoOutput
    /\ UNCHANGED <<config, snapshot, run, outputs, hintvars>>

\* generate_config_types is called: make_nested_config starts on result = {}.
Start ==
    /\ pc = "idle"
    /\ pc' = "build"
    /\ result' = EmptyDict
    /\ i' = 1
    /\ nested_config' = NoTree
    /\ class_def' = <<>>
    /\ output' = NoOutput
    /\ UNCHANGED <<config, snapshot, run, outputs, hintvars>>

\* One iteration of the loop of make_nested_config; a raise ends the run.
InsertKey ==
    /\ pc = "build"
    /\ i <= Len(config)
    /\ LET parts == split(config[i].key, ".")
           r == insert(result, parts, config[i].value)
       IN IF r.ok
          THEN /\ result' = r.node
               /\ i' = i + 1
               /\ pc' = "build"
               /\ outputs' = outputs
          ELSE /\ result' = result
               /\ i' = i
               /\ pc' = "failed"
               /\ outputs' = Append(outputs, NoOutput)
    /\ UNCHANGED <<config, snapshot, nested_config, class_def, output, run,
                   hintvars>>

\* make_nested_config returns.
ReturnTree ==
    /\ pc = "build"
    /\ i > Len(config)
    /\ nested_config' = Built(result)
    /\ pc' = "emit"
    /\ UNCHANGED <<config, snapshot, i, result, class_def, output, run,
                   outputs, hintvars>>

\* generate_class on the tree, and the join of the output; a raise ends the run.
Emit ==
    /\ pc = "emit"
    /\ LET r == generate_class(RootName, nested_config.node, "",
                               <<RootDescription>>)
       IN IF r.ok
          THEN /\ class_def' = r.lines
               /\ output' = Text(OutputText(r.lines))
               /\ pc' = "done"
               /\ outputs' = Append(outputs, Text(OutputText(r.lines)))
          ELSE /\ class_def' = class_def
               /\ output' = output
               /\ pc' = "failed"
               /\ outputs' = Append(outputs, NoOutput)
    /\ UNCHANGED <<config, snapshot, i, result, nested_config, run, hintvars>>

\* The script is run again on the same schema.
Rerun ==
    /\ pc \in {"done", "failed"}
    /\ run < MaxRuns
    /\ run' = run + 1
    /\ pc' = "idle"
    /\ UNCHANGED <<config, snapshot, i, result, nested_config, class_def,
                   output, outputs, hintvars>>

Next == Start \/ InsertKey \/ ReturnTree \/ Emit \/ Rerun

Spec == Init /\ [][Next]_vars

\* ------------------------------------------------------------ resolver runs

\* A schema of one option of the descriptor typ, with or without a default,
\* at the root or one level down.
InitHint ==
    /\ typ \in Types
    /\ \E default \in {"None", "80"}, key \in {<<"k">>, <<"o", ".", "k">>} :
          config = <<Item(key, Option(typ, default, <<>>))>>
    /\ snapshot = config
    /\ pc = "idle"
    /\ i = 1
    /\ result = EmptyDict
    /\ nested_config = NoTree
    /\ class_def = <<>>
    /\ output = NoOutput
    /\ run = 1
    /\ outputs = <<>>
    /\ resolved = {}
    /\ inner = Raised
    /\ hint = Raised

CallInner ==
    /\ resolved = {}
    /\ inner' = _get_type_hint(typ)
    /\ resolved' = {"_get_type_hint"}
    /\ UNCHANGED <<genvars, typ, hint>>

CallOuter ==
    /\ resolved = {"_get_type_hint"}
    /\ hint' = get_type_hint(typ)
    /\ resolved' = {"_get_type_hint", "get_type_hint"}
    /\ UNCHANGED <<genvars, typ, inner>>

\* The generator then runs on the schema.
StartHint == resolved = {"_get_type_hint", "get_type_hint"} /\ Start

NextHint ==
    CallInner \/ CallOuter \/ StartHint \/ InsertKey \/ ReturnTree \/ Emit

SpecHint == InitHint /\ [][NextHint]_vars

\* ---------------------------------------------- reading the emitted records

\* Nesting depth of an element of class_def, in characters of indentation.
Level(l) == Len(l.indent)

\* The last element of the body of the class whose "class" element is p.
BodyEnd(lines, p) ==
    CHOOSE e \in p..Len(lines) :
        /\ \A q \in (p + 1)..e : Level(lines[q]) > Level(lines[p])
        /\ e = Len(lines) \/ Level(lines[e + 1]) <= Level(lines[p])

\* The indices, in order, of the elements of kind `kind` directly in the body
\* of the class at p.
Direct(lines, p, kind) ==
    LET IsDirect(q) == /\ lines[q].kind = kind
                       /\ Level(lines[q]) = Level(lines[p]) + 4
    IN SelectSeq([k \in 1..(BodyEnd(lines, p) - p) |-> p + k], IsDirect)

RECURSIVE ParseRecord(_, _)
\* The record the class at p defines: its name, its annotated fields and the
\* classes defined in its body, each in textual order.
ParseRecord(lines, p) ==
    LET fs == Direct(lines, p, "field")
        cs == Direct(lines, p, "class")
    IN [name |-> lines[p].name,
        fields |-> [k \in 1..Len(fs) |->
                       [key |-> lines[fs[k]].name, hint |-> lines[fs[k]].hint]],
        classes |-> [k \in 1..Len(cs) |-> ParseRecord(lines, cs[k])]]

\* The outermost record of class_def: element 1 is its decorator.
RootRecord == ParseRecord(class_def, 2)

RECURSIVE Sum(_)
Sum(ns) == IF ns = <<>> THEN 0 ELSE Head(ns) + Sum(Tail(ns))

RECURSIVE CountRecords(_)
CountRecords(rec) ==
    1 + Sum([k \in 1..Len(rec.classes) |-> CountRecords(rec.classes[k])])

\* ------------------------------------------------------ reading the tree

ChildKeys(node) == [k \in 1..Len(node.items) |-> node.items[k].key]
IsInternal(item) == item.value.isdict
InternalItems(node) == SelectSeq(node.items, IsInternal)

RECURSIVE CountInternal(_)
CountInternal(node) ==
    IF ~node.isdict THEN 0
    ELSE 1 + Sum([k \in 1..Len(node.items) |->
                     CountInternal(node.items[k].value)])

RECURSIVE Flatten(_, _)
\* The (dotted key, option) pairs of the leaves of node, the segments of
\* the path to each joined with ".".
Flatten(node, path) ==
    IF ~node.isdict THEN <<Item(join(<<".">>, path), node.option)>>
    ELSE Concat([k \in 1..Len(node.items) |->
                    Flatten(node.items[k].value,
                            Append(path, node.items[k].key))])

Parts(k) == split(config[k].key, ".")
IsProperPrefix(p, q) == Len(p) < Len(q) /\ SubSeq(q, 1, Len(p)) = p

\* Some key of the input is a proper dotted prefix of another.
PrefixCollision ==
    \E j, k \in 1..Len(config) : IsProperPrefix(Parts(j), Parts(k))

RECURSIVE Dedupe(_)
\* s without the repetitions of an earlier element.
Dedupe(s) ==
    IF s = <<>> THEN <<>>
    ELSE LET init == Dedupe(SubSeq(s, 1, Len(s) - 1))
             last == s[Len(s)]
         IN IF \E k \in 1..Len(init) : init[k] = last THEN init
            ELSE Append(init, last)

\* The segments that follow path in the input keys passing through it, by
\* first occurrence in input order.
FirstOccurrences(path) ==
    LET Through(k) == IsProperPrefix(path, Parts(k))
        ks == SelectSeq([k \in 1..Len(config) |-> k], Through)
    IN Dedupe([k \in 1..Len(ks) |-> Parts(ks[k])[Len(path) + 1]])

\* ================================================================= claims

\* ---------------------------------------------------------------------- C1
\* C1 (as claimed): whenever the input mapping holds two keys one of which is
\* a proper dotted prefix of the other, in either insertion order,
\* make_nested_config raises and returns no tree.
C1_CollisionRejected == PrefixCollision => ~nested_config.ok

\* ---------------------------------------------------------------------- C10
\* C10: when no input key is a proper dotted prefix of another,
\* make_nested_config does not raise, and flattening the tree it returns
\* gives exactly the input mapping: every input key is the path of exactly
\* one leaf, which holds that key's option, and there is no other leaf.
C10_RoundTrip ==
    ~PrefixCollision =>
        /\ ~(pc = "failed" /\ ~nested_config.ok)
        /\ nested_config.ok =>
             LET flat == Flatten(nested_config.node, <<>>)
             IN /\ Len(flat) = Len(config)
                /\ {flat[k] : k \in 1..Len(flat)}
                     = {config[k] : k \in 1..Len(config)}

\* A tree of two levels was returned for three keys with no collision.
C10_Witness ==
    /\ ~PrefixCollision
    /\ nested_config.ok
    /\ Len(config) = 3
    /\ \E k \in 1..Len(nested_config.node.items) :
          /\ nested_config.node.items[k].value.isdict
          /\ Len(nested_config.node.items[k].value.items) = 2

\* ---------------------------------------------------------------------- C2
RECURSIVE TreeOrdered(_, _)
\* The children of every internal node below node (at path) are in the order
\* of first occurrence of the input keys passing through them.
TreeOrdered(node, path) ==
    ~node.isdict \/
        /\ ChildKeys(node) = FirstOccurrences(path)
        /\ \A k \in 1..Len(node.items) :
              TreeOrdered(node.items[k].value, Append(path, node.items[k].key))

RECURSIVE FieldsOrdered(_, _)
\* The fields of rec are the children of node in sibling order, and so on for
\* the records of the internal children, taken in sibling order.
FieldsOrdered(node, rec) ==
    /\ [k \in 1..Len(rec.fields) |-> rec.fields[k].key] = ChildKeys(node)
    /\ Len(rec.classes) = Len(InternalItems(node))
    /\ \A k \in 1..Len(rec.classes) :
          FieldsOrdered(InternalItems(node)[k].value, rec.classes[k])

\* C2: the children of every node of the tree make_nested_config returns are
\* ordered by the first occurrence, in input order, of a key passing through
\* them, and generate_class emits the fields of each record in that order.
C2_Ordering ==
    /\ nested_config.ok => TreeOrdered(nested_config.node, <<>>)
    /\ pc = "done" => FieldsOrdered(nested_config.node, RootRecord)

\* The input keys b.x, a.y, b.z gave root fields b, a and fields x, z under b.
C2_Witness ==
    /\ pc = "done"
    /\ [k \in 1..Len(config) |-> config[k].key]
         = << <<"b", ".", "x">>, <<"a", ".", "y">>, <<"b", ".", "z">> >>
    /\ [k \in 1..Len(RootRecord.fields) |-> RootRecord.fields[k].key]
         = << <<"b">>, <<"a">> >>
    /\ [k \in 1..2 |-> RootRecord.classes[1].fields[k].key]
         = << <<"x">>, <<"z">> >>

\* ---------------------------------------------------------------------- C3
RECURSIVE Nullables(_)
\* The number of descriptors with none_ok set among those the resolution of
\* t goes through.
Nullables(t) ==
    (IF t.none_ok THEN 1 ELSE 0) +
    (IF t.cls = "List" THEN Nullables(t.valtype)
     ELSE IF t.cls = "Dict" THEN Nullables(t.keytype) + Nullables(t.valtype)
     ELSE IF t.cls = "ListOrValue" /\ t.valid_values.isNone
          THEN Nullables(t.valtype) + Nullables(t.listtype)
     ELSE 0)

IsOptionalToken(tok) == tok = "Optional["
Optionals(toks) == Len(SelectSeq(toks, IsOptionalToken))

\* C3: get_type_hint returns Optional[X] when none_ok is set and X when it
\* is not, X being what _get_type_hint returns, and raises when that raises;
\* the result holds one Optional per nullable descriptor resolved, so a
\* nullable List of a non-nullable Int gives Optional[list[int]].
C3_Nullability ==
    resolved = {"_get_type_hint", "get_type_hint"} =>
        /\ hint.ok = inner.ok
        /\ inner.ok =>
             /\ hint.toks = IF typ.none_ok
                            THEN <<"Optional[">> \o inner.toks \o <<"]">>
                            ELSE inner.toks
             /\ Optionals(hint.toks) = Nullables(typ)
        /\ typ = List(Leaf("Int", FALSE, NoValues), TRUE) =>
             Str(hint.toks) = "Optional[list[int]]"

\* The nullable List of a non-nullable Int was resolved.
C3_Witness ==
    /\ resolved = {"_get_type_hint", "get_type_hint"}
    /\ typ = List(Leaf("Int", FALSE, NoValues), TRUE)
    /\ Str(inner.toks) = "list[int]"
    /\ Str(hint.toks) = "Optional[list[int]]"

\* ---------------------------------------------------------------------- C4
RECURSIVE FieldTypes(_, _)
\* Each leaf child of node has a field in rec whose type is Optional[...]
\* around get_type_hint of the option's type exactly when the option has no
\* default, and is get_type_hint of it otherwise; likewise below.
FieldTypes(node, rec) ==
    /\ Len(rec.fields) = Len(node.items)
    /\ Len(rec.classes) = Len(InternalItems(node))
    /\ \A k \in 1..Len(node.items) :
          ~node.items[k].value.isdict =>
             LET option == node.items[k].value.option
                 plain == get_type_hint(option.typ).toks
                 wrapped == <<"Optional[">> \o plain \o <<"]">>
                 emitted == rec.fields[k].hint
             IN /\ rec.fields[k].key = node.items[k].key
                /\ (emitted = wrapped) <=> (option.default = "None")
                /\ (emitted = plain) <=> (option.default # "None")
    /\ \A k \in 1..Len(rec.classes) :
          FieldTypes(InternalItems(node)[k].value, rec.classes[k])

\* C4: a leaf option's field is optional exactly when its default is absent,
\* whatever the descriptor's own none_ok flag.
C4_FieldOptionality == pc = "done" => FieldTypes(nested_config.node, RootRecord)

\* A String option that is not nullable and has no default was emitted as
\* Optional[str], one level down.
C4_Witness ==
    /\ pc = "done"
    /\ typ = Leaf("String", FALSE, NoValues)
    /\ config[1].value.default = "None"
    /\ Len(RootRecord.classes) = 1
    /\ Str(RootRecord.classes[1].fields[1].hint) = "Optional[str]"

\* ---------------------------------------------------------------------- C5
RECURSIVE Isomorphic(_, _)
\* rec has one field per child of node, and the field of each internal child
\* names exactly one class of rec's body, which is isomorphic to that child.
Isomorphic(node, rec) ==
    /\ [k \in 1..Len(rec.fields) |-> rec.fields[k].key] = ChildKeys(node)
    /\ \A k \in 1..Len(node.items) :
          node.items[k].value.isdict =>
             LET named == {j \in 1..Len(rec.classes) :
                              rec.classes[j].name = rec.fields[k].hint}
             IN /\ Cardinality(named) = 1
                /\ Isomorphic(node.items[k].value,
                              rec.classes[CHOOSE j \in named : TRUE])

\* C5 (as claimed): the output holds exactly one record per internal node of
\* the tree, with one field per child, and each field of an internal child
\* references the record emitted for that child.
C5_Isomorphism ==
    pc = "done" =>
        /\ CountRecords(RootRecord) = CountInternal(nested_config.node)
        /\ Isomorphic(nested_config.node, RootRecord)

\* ---------------------------------------------------------------------- C6
RECURSIVE SiblingNameCollision(_)
\* Two distinct internal children of one node below node derive the same
\* nested record name.
SiblingNameCollision(node) ==
    /\ node.isdict
    /\ \/ \E j, k \in 1..Len(node.items) :
             /\ j # k
             /\ node.items[j].value.isdict
             /\ node.items[k].value.isdict
             /\ nested_name(node.items[j].key) = nested_name(node.items[k].key)
       \/ \E k \in 1..Len(node.items) :
             SiblingNameCollision(node.items[k].value)

RECURSIVE DuplicateRecordNames(_)
\* Two classes of the same name in the body of one record of rec.
DuplicateRecordNames(rec) ==
    \/ \E j, k \in 1..Len(rec.classes) :
          j # k /\ rec.classes[j].name = rec.classes[k].name
    \/ \E k \in 1..Len(rec.classes) : DuplicateRecordNames(rec.classes[k])

\* C6 (as claimed): when two sibling internal nodes derive the same nested
\* record name, generation fails: no output holds two records of one name in
\* one scope.
C6_NameCollisionRejected ==
    /\ (nested_config.ok /\ SiblingNameCollision(nested_config.node))
          => ~output.ok
    /\ pc = "done" => ~DuplicateRecordNames(RootRecord)

\* ---------------------------------------------------------------------- C7
Unhandled(t) == t.cls \notin HandledClasses

RECURSIVE ReachesUnhandledPlain(_)
\* The resolution of t comes to a descriptor of an unhandled class that has
\* no valid values.
ReachesUnhandledPlain(t) ==
    IF t.cls = "List" THEN ReachesUnhandledPlain(t.valtype)
    ELSE IF t.cls = "Dict"
         THEN ReachesUnhandledPlain(t.keytype) \/ ReachesUnhandledPlain(t.valtype)
    ELSE IF t.cls = "ListOrValue"
         THEN /\ t.valid_values.isNone
              /\ \/ ReachesUnhandledPlain(t.valtype)
                 \/ ReachesUnhandledPlain(t.listtype)
    ELSE Unhandled(t) /\ t.valid_values.isNone

\* No call made so far returned, and no finished run gave output text.
Aborted ==
    /\ "_get_type_hint" \in resolved => ~inner.ok
    /\ "get_type_hint" \in resolved => ~hint.ok
    /\ ~output.ok
    /\ pc # "done"

\* C7 (as claimed): a descriptor of a class outside the handled set makes
\* resolution abort, whatever its other attributes, and no output text is
\* produced.
C7_UnhandledAlwaysFatal == Unhandled(typ) => Aborted

\* C7 (amended): resolution that comes to a descriptor of an unhandled class
\* with no valid values aborts, and no output text is produced.
C7_UnhandledPlainFatal == ReachesUnhandledPlain(typ) => Aborted

\* A descriptor of an unhandled class with no valid values went through both
\* functions and a whole run, which failed in the emitter.
C7_Witness ==
    /\ Unhandled(typ) /\ typ.valid_values.isNone
    /\ resolved = {"_get_type_hint", "get_type_hint"}
    /\ ~inner.ok /\ ~hint.ok
    /\ pc = "failed" /\ nested_config.ok

\* ---------------------------------------------------------------------- C8
\* The string-like classes the claim lists.
C8_Listed == {"String", "FontBase", "QtColor", "QssColor", "Command", "Key",
              "SessionName", "Url", "File", "UrlPattern", "FormatString",
              "Directory", "Encoding", "FuzzyUrl", "SearchEngineUrl", "Proxy"}

\* C8 (as claimed): _get_type_hint returns "str" for every descriptor of a
\* listed class, and exactly one branch test holds for it.
C8_StringLikeAlwaysStr ==
    (typ.cls \in C8_Listed /\ "_get_type_hint" \in resolved) =>
        /\ inner = Returned(<<"str">>)
        /\ Cardinality(BranchesApplying(typ)) = 1

\* C8 (amended): _get_type_hint returns "str" for every descriptor of a
\* listed class that has no valid values, and the string-like test is the only
\* branch test that holds for it; one that has valid values resolves, by the
\* earlier valid-values branch, to the Literal of them.
C8_StringLikePlainStr ==
    (typ.cls \in C8_Listed /\ "_get_type_hint" \in resolved) =>
        IF typ.valid_values.isNone
        THEN /\ inner = Returned(<<"str">>)
             /\ BranchesApplying(typ) = {"StringLike"}
        ELSE /\ inner.ok
             /\ Str(inner.toks) = "Literal['x', 'y']"
             /\ BranchesApplying(typ) = {"valid_values", "StringLike"}

\* A Proxy descriptor with no valid values was resolved to str.
C8_Witness ==
    /\ typ.cls = "Proxy" /\ typ.valid_values.isNone
    /\ "_get_type_hint" \in resolved
    /\ Str(inner.toks) = "str"

\* ---------------------------------------------------------------------- C9
\* C9: every run of generate_config_types on the same input mapping ends the
\* same way, with identical output text, and the input mapping and its
\* options stay what the schema loader produced.
C9_Idempotent ==
    /\ config = snapshot
    /\ \A j, k \in 1..Len(outputs) : outputs[j] = outputs[k]

\* Two runs on a three-key mapping both returned text.
C9_Witness ==
    /\ Len(outputs) = 2
    /\ Len(config) = 3
    /\ outputs[1].ok /\ outputs[2].ok

====
